---------------------------- MODULE Spec2Model ----------------------------
(***************************************************************************)
(* Market Bar POS simulator: the in-memory stores, the request handlers   *)
(* and the WebSocket clients of src/src/server.ts, and the helpers of      *)
(* utils.ts (src/unnamed/part_000): validatePrice, calculateOrderTotals,   *)
(* sendWebhook, generateHmacSignature, verifyHmacSignature, getSeedItems.  *)
(*                                                                         *)
(* Money.  The program computes with JavaScript numbers.  The model uses   *)
(* exact fixed-point arithmetic: every monetary value is an integer number *)
(* of mills (1/1000 dollar), so 7 dollars is 7000 and a value with two     *)
(* decimals is a multiple of 10.  A tax rate is an integer number of       *)
(* 1/400ths, so the default rate 0.0825 is exactly 33.  Unrounded tax is   *)
(* therefore a number of (mills / 400).  Binary floating-point error of    *)
(* the program (which can move a value across a rounding tie) is outside   *)
(* the model.                                                              *)
(*                                                                         *)
(* Optional JSON fields (undefined / null) are modelled as sets: {} is an  *)
(* absent field, {v} a field holding v.                                    *)
(*                                                                         *)
(* Node runs every request handler and every socket event handler to      *)
(* completion on one thread, so each handler is one atomic action.  The    *)
(* only asynchronous code is sendWebhook, whose awaits (fetch, sleep)      *)
(* separate its steps.                                                     *)
(***************************************************************************)
EXTENDS Integers, Sequences, FiniteSets, TLC

VARIABLES
    catalog,      \* server.ts:43  Map id -> CatalogItem
    orders,       \* server.ts:44  Map id -> Order
    promotions,   \* server.ts:45  Map id -> Promotion
    menuVersion,  \* server.ts:46
    webhookUrl,   \* server.ts:40  MARKETBAR_WEBHOOK_URL configured or not
    nextId,       \* generateId(): the next fresh identifier
    clock,        \* new Date(): logical time, one tick per request
    eventLog,     \* history: every message handed to broadcast(), in order
    lastRequest,  \* history: the request handled last and its response
    deliveries,   \* the sendWebhook calls in flight or finished, by order id
    wsClients,    \* server.ts:63  Set of sockets, in insertion order
    sockets,      \* the state of each client's socket
    inbox,        \* history: the messages each client has received, in order
    lost,         \* history: the sends to each client that failed
    joined,       \* history: Len(eventLog) when each client registered
    vcall,        \* a call of validatePrice: its inputs and its result
    tcall,        \* a call of calculateOrderTotals: its inputs and its result
    hcall         \* a call of verifyHmacSignature: its inputs and its result

vars == <<catalog, orders, promotions, menuVersion, webhookUrl, nextId, clock,
          eventLog, lastRequest, deliveries, wsClients, sockets, inbox, lost,
          joined, vcall, tcall, hcall>>

clientVars == <<wsClients, sockets, inbox, lost, joined>>

serverVars == <<catalog, orders, promotions, menuVersion, webhookUrl, nextId,
                clock, eventLog, lastRequest>>

-----------------------------------------------------------------------------
(* Bounds of the model *)

\* requests handled in one behaviour
MaxRequests == 2
\* lines in one create-order request
MaxLines == 2
\* quantity of one order line
MaxQty == 2

-----------------------------------------------------------------------------
(* Values *)

Has(opt) == opt # {}
Val(opt) == CHOOSE v \in opt : TRUE

\* dollars and cents as mills
Dollars(d) == d * 1000
IsRounded2(x) == x % 10 = 0

\* the default tax rate 0.0825, in 1/400ths  (server.ts:150, part_000:179)
DefaultTaxRate == 33
RateDen == 4 * 100

\* Math.round(x * 100) / 100 for x = num / den mills (den > 0), in mills.
\* Math.round rounds to the nearest integer, a tie towards +infinity:
\* floor(x + 1/2).
Round2(num, den) == 10 * ((2 * num + 10 * den) \div (20 * den))

-----------------------------------------------------------------------------
(* getSeedItems: the five items the catalog holds after construction.  The *)
(* ids generateId() draws are modelled as 1..5.                            *)

SeedItem(name, category, price, minPrice, maxPrice) ==
    [name |-> name, category |-> category, price |-> Dollars(price),
     minPrice |-> Dollars(minPrice), maxPrice |-> Dollars(maxPrice),
     taxRate |-> DefaultTaxRate, isActive |-> TRUE,
     createdAt |-> 0, updatedAt |-> 0]

getSeedItems ==
    <<SeedItem("IPA Pint", "Beer", 7, 5, 12),
      SeedItem("Lager Pint", "Beer", 6, 4, 10),
      SeedItem("House Margarita", "Cocktails", 12, 9, 18),
      SeedItem("Old Fashioned", "Cocktails", 14, 11, 20),
      SeedItem("Frozen Daiquiri", "Cocktails", 10, 8, 16)>>

SeedIds == DOMAIN getSeedItems

SeedCatalog == [id \in SeedIds |-> getSeedItems[id]]

-----------------------------------------------------------------------------
(* validatePrice (part_000:95-119) *)

\* the bounds tested with <= and >= : a price on a bound is rejected
validatePriceStrict(item, newPrice, overrideGuardrails) ==
    IF Has(overrideGuardrails) /\ Val(overrideGuardrails)
    THEN [valid |-> TRUE, message |-> {}]
    ELSE IF newPrice <= item.minPrice
    THEN [valid |-> FALSE,
          message |-> {<<"below minimum", newPrice, item.minPrice>>}]
    ELSE IF newPrice >= item.maxPrice
    THEN [valid |-> FALSE,
          message |-> {<<"above maximum", newPrice, item.maxPrice>>}]
    ELSE [valid |-> TRUE, message |-> {}]

\* the test against the maximum left out
validatePriceMinOnly(item, newPrice, overrideGuardrails) ==
    IF Has(overrideGuardrails) /\ Val(overrideGuardrails)
    THEN [valid |-> TRUE, message |-> {}]
    ELSE IF newPrice < item.minPrice
    THEN [valid |-> FALSE,
          message |-> {<<"below minimum", newPrice, item.minPrice>>}]
    ELSE [valid |-> TRUE, message |-> {}]

\* the test against the minimum left out
validatePriceMaxOnly(item, newPrice, overrideGuardrails) ==
    IF Has(overrideGuardrails) /\ Val(overrideGuardrails)
    THEN [valid |-> TRUE, message |-> {}]
    ELSE IF newPrice > item.maxPrice
    THEN [valid |-> FALSE,
          message |-> {<<"above maximum", newPrice, item.maxPrice>>}]
    ELSE [valid |-> TRUE, message |-> {}]

\* overrideGuardrails: boolean = false, so an absent argument is false
validatePrice(item, newPrice, overrideGuardrails) ==
    IF Has(overrideGuardrails) /\ Val(overrideGuardrails)
    THEN [valid |-> TRUE, message |-> {}]
    ELSE IF newPrice < item.minPrice
    THEN [valid |-> FALSE,
          message |-> {<<"below minimum", newPrice, item.minPrice>>}]
    ELSE IF newPrice > item.maxPrice
    THEN [valid |-> FALSE,
          message |-> {<<"above maximum", newPrice, item.maxPrice>>}]
    ELSE [valid |-> TRUE, message |-> {}]

-----------------------------------------------------------------------------
(* calculateOrderTotals (part_000:124-164) *)

\* one pass of the for loop, per-line values rounded before they are summed
TotalsStepRounded(acc, line, cat) ==
    LET catalogItem == cat[line.itemId]
        itemSubtotal == Round2(catalogItem.price * line.qty, 1)
        itemTax == itemSubtotal * catalogItem.taxRate
    IN  [subtotal |-> acc.subtotal + itemSubtotal,
         totalTax |-> acc.totalTax + itemTax,
         orderItems |-> Append(acc.orderItems,
                          [itemId |-> line.itemId, name |-> catalogItem.name,
                           price |-> catalogItem.price, quantity |-> line.qty,
                           subtotal |-> itemSubtotal])]

\* one pass of the for loop over a line whose item exists (lines 143-155):
\* subtotal in mills, totalTax in mills/400
TotalsStep(acc, line, cat) ==
    LET catalogItem == cat[line.itemId]
        itemSubtotal == catalogItem.price * line.qty
        itemTax == itemSubtotal * catalogItem.taxRate
    IN  [subtotal |-> acc.subtotal + itemSubtotal,
         totalTax |-> acc.totalTax + itemTax,
         orderItems |-> Append(acc.orderItems,
                          [itemId |-> line.itemId, name |-> catalogItem.name,
                           price |-> catalogItem.price, quantity |-> line.qty,
                           subtotal |-> itemSubtotal])]

RECURSIVE TotalsLoopSkip(_, _, _, _)
\* the for loop with a line whose item is absent skipped instead of thrown
TotalsLoopSkip(items, cat, i, acc) ==
    IF i > Len(items)
    THEN [ok |-> TRUE,
          items |-> acc.orderItems,
          subtotal |-> Round2(acc.subtotal, 1),
          tax |-> Round2(acc.totalTax, RateDen),
          total |-> Round2(acc.subtotal * RateDen + acc.totalTax, RateDen)]
    ELSE IF items[i].itemId \notin DOMAIN cat
    THEN TotalsLoopSkip(items, cat, i + 1, acc)
    ELSE TotalsLoopSkip(items, cat, i + 1, TotalsStep(acc, items[i], cat))

RECURSIVE TotalsLoop(_, _, _, _)
\* the for loop from line i on: throws at the first line whose item is absent
TotalsLoop(items, cat, i, acc) ==
    IF i > Len(items)
    THEN [ok |-> TRUE,
          items |-> acc.orderItems,
          subtotal |-> Round2(acc.subtotal, 1),
          tax |-> Round2(acc.totalTax, RateDen),
          total |-> Round2(acc.subtotal * RateDen + acc.totalTax, RateDen)]
    ELSE IF items[i].itemId \notin DOMAIN cat
    THEN [ok |-> FALSE, error |-> <<"not found", items[i].itemId>>]
    ELSE TotalsLoop(items, cat, i + 1, TotalsStep(acc, items[i], cat))

\* the totals with the stored percent_off promotions applied to the prices
calculateOrderTotalsPromoted(items, cat) ==
    LET off(id) == {promotions[p].value : p \in
                      {q \in DOMAIN promotions :
                          /\ promotions[q].itemId = id
                          /\ promotions[q].kind = "percent_off"}}
        discounted == [id \in DOMAIN cat |->
                         IF off(id) = {} THEN cat[id]
                         ELSE [cat[id] EXCEPT
                                 !.price = (@ * (100 - Val(off(id)))) \div 100]]
    IN  TotalsLoop(items, discounted, 1,
                   [subtotal |-> 0, totalTax |-> 0, orderItems |-> <<>>])

calculateOrderTotals(items, cat) ==
    TotalsLoop(items, cat, 1, [subtotal |-> 0, totalTax |-> 0, orderItems |-> <<>>])

-----------------------------------------------------------------------------
(* sendWebhook (part_000:33-83).  One call is a record; its awaits split   *)
(* it into steps.  The call itself runs synchronously up to the first      *)
(* await: it serializes the payload, signs it and issues the first fetch.  *)
(*   state:  "sending"   a fetch is in flight (await fetch, line 47)       *)
(*           "sleeping"  in sleep(delay) before a retry (lines 65, 74)     *)
(*           "success"   returned at line 59                               *)
(*           "failed"    threw at line 79: the promise is rejected         *)
(*           "returned"  left the while loop at line 82 without a result   *)
(* attempts, failures, lastOutcome and waits are history: the fetch calls  *)
(* issued, the fetches that failed, how the last settled fetch ended, and  *)
(* the sleep(ms) calls in order.                                           *)

\* WEBHOOK_SECRET (server.ts:39)
WEBHOOK_SECRET == "supersecret"

\* JSON.stringify(payload) (line 39): the serialized body, as a tagged value
Stringify(payload) == <<"json", payload>>

\* generateHmacSignature (part_000:18-20): the keyed digest, as a tagged value
generateHmacSignature(payloadString, secret) == <<"hmac-sha256", secret, payloadString>>

\* one call of fetch (lines 47-55): the body and the x-pos-signature header
Fetch(payloadString, signature) == [body |-> payloadString, signature |-> signature]

\* lines 39-47: the state of a call when it first yields.  transmitted is
\* history: what each call of fetch so far has sent.
sendWebhook(payload, secret, maxRetries) ==
    [body |-> Stringify(payload),
     signature |-> generateHmacSignature(Stringify(payload), secret),
     transmitted |-> <<Fetch(Stringify(payload),
                             generateHmacSignature(Stringify(payload), secret))>>,
     maxRetries |-> maxRetries,
     retryCount |-> 0,
     delay |-> 1000,
     state |-> "sending",
     attempts |-> 1,
     failures |-> 0,
     lastOutcome |-> "none",
     waits |-> <<>>]

\* outcomes of one fetch: a 2xx response, another status, a transport error
FetchOutcomes == {"ok", "non2xx", "error"}

\* the retry test written with <= : one retry too many
FetchSettlesOffByOne(d, outcome) ==
    IF outcome = "ok"
    THEN [d EXCEPT !.state = "success", !.lastOutcome = outcome]
    ELSE IF d.retryCount <= d.maxRetries
    THEN [d EXCEPT !.state = "sleeping",
                   !.lastOutcome = outcome,
                   !.failures = @ + 1,
                   !.waits = Append(@, d.delay)]
    ELSE [d EXCEPT !.state = "failed", !.lastOutcome = outcome, !.failures = @ + 1]

\* the return of line 59 left out: a 2xx response falls through to the retry
FetchSettlesNoReturn(d, outcome) ==
    IF d.retryCount < d.maxRetries
    THEN [d EXCEPT !.state = "sleeping",
                   !.lastOutcome = outcome,
                   !.failures = IF outcome = "ok" THEN @ ELSE @ + 1,
                   !.waits = Append(@, d.delay)]
    ELSE [d EXCEPT !.state = "failed",
                   !.lastOutcome = outcome,
                   !.failures = IF outcome = "ok" THEN @ ELSE @ + 1]

\* the await of line 47 resumes (lines 57-81).  A non-2xx response with no
\* retry left throws inside the try (line 69) and is rethrown by the catch
\* (line 79), like a transport error.
FetchSettles(d, outcome) ==
    IF outcome = "ok"
    THEN [d EXCEPT !.state = "success", !.lastOutcome = outcome]
    ELSE IF d.retryCount < d.maxRetries
    THEN [d EXCEPT !.state = "sleeping",
                   !.lastOutcome = outcome,
                   !.failures = @ + 1,
                   !.waits = Append(@, d.delay)]
    ELSE [d EXCEPT !.state = "failed", !.lastOutcome = outcome, !.failures = @ + 1]

\* retryCount++ left out: the loop condition of line 45 never fails
SleepEndsNoCount(d) ==
    [d EXCEPT !.delay = @ * 2,
              !.state = "sending",
              !.attempts = @ + 1,
              !.transmitted = Append(@, Fetch(d.body, d.signature))]

\* the payload serialized again for each retry, stamped with the time of the
\* retry, under the signature computed at the start
SleepEndsRestamped(d) ==
    IF d.retryCount + 1 <= d.maxRetries
    THEN [d EXCEPT !.delay = @ * 2,
                   !.retryCount = @ + 1,
                   !.state = "sending",
                   !.attempts = @ + 1,
                   !.transmitted =
                      Append(@, Fetch(Stringify([d.body[2] EXCEPT
                                                   !.timestamp = @ + d.retryCount + 1]),
                                      d.signature))]
    ELSE [d EXCEPT !.delay = @ * 2,
                   !.retryCount = @ + 1,
                   !.state = "returned"]

\* sleep(delay) resolves (lines 65-67, 74-76): delay doubles, retryCount++,
\* and the loop condition of line 45 decides whether the next fetch is issued
SleepEnds(d) ==
    IF d.retryCount + 1 <= d.maxRetries
    THEN [d EXCEPT !.delay = @ * 2,
                   !.retryCount = @ + 1,
                   !.state = "sending",
                   !.attempts = @ + 1,
                   !.transmitted = Append(@, Fetch(d.body, d.signature))]
    ELSE \* the loop ends and the function returns without a result
         [d EXCEPT !.delay = @ * 2,
                   !.retryCount = @ + 1,
                   !.state = "returned"]

Terminal(d) == d.state \in {"success", "failed", "returned"}

\* a fetch of delivery k settles, and an exhausted delivery takes its order
\* back out of the store
WebhookFetchSettlesRollback(k, outcome) ==
    /\ k \in DOMAIN deliveries
    /\ deliveries[k].state = "sending"
    /\ deliveries' = [deliveries EXCEPT ![k] = FetchSettles(@, outcome)]
    /\ orders' = IF FetchSettles(deliveries[k], outcome).state = "failed"
                 THEN [id \in DOMAIN orders \ {k} |-> orders[id]]
                 ELSE orders
    /\ UNCHANGED <<catalog, promotions, menuVersion, webhookUrl, nextId, clock,
                   eventLog, lastRequest, clientVars, vcall, tcall, hcall>>

\* a fetch of delivery k settles
WebhookFetchSettles(k, outcome) ==
    /\ k \in DOMAIN deliveries
    /\ deliveries[k].state = "sending"
    /\ deliveries' = [deliveries EXCEPT ![k] = FetchSettles(@, outcome)]
    /\ UNCHANGED <<serverVars, clientVars, vcall, tcall, hcall>>

\* the sleep of delivery k ends
WebhookSleepEnds(k) ==
    /\ k \in DOMAIN deliveries
    /\ deliveries[k].state = "sleeping"
    /\ deliveries' = [deliveries EXCEPT ![k] = SleepEnds(@)]
    /\ UNCHANGED <<serverVars, clientVars, vcall, tcall, hcall>>

-----------------------------------------------------------------------------
(* The server (src/src/server.ts).  Requests are the authenticated ones:   *)
(* the API-key middleware answers the others before any handler runs.      *)

\* broadcast (lines 88-95): the record of the messages broadcast so far
broadcast(log, message) == Append(log, message)

Message(event, data, ts) == [event |-> event, data |-> data, ts |-> ts]

-----------------------------------------------------------------------------
(* WebSocket clients (server.ts:63-95).  A socket is "new" before it       *)
(* connects; "open" while its readyState is OPEN and the connection works; *)
(* "broken" when the connection has failed under it but the library has    *)
(* not yet emitted 'error' (readyState is still OPEN, and what is sent is  *)
(* lost); "closing" when the peer has closed and 'close' is yet to be      *)
(* emitted; "errored" after the 'error' handler ran, 'close' yet to come;  *)
(* "done" after the 'close' handler ran.  ws reports a failed send by an   *)
(* 'error' event, never by an exception of send() on an OPEN socket.       *)

\* the sockets that may connect in one behaviour
Clients == {"c1", "c2"}

\* client.readyState === WebSocket.OPEN (line 91)
ReadyStateOpen(socks, c) == socks[c] \in {"open", "broken"}

\* wsClients.has(c)
Registered(clients, c) == \E i \in DOMAIN clients : clients[i] = c

\* wsClients.add(ws) (line 67): a Set keeps insertion order and no duplicate
SetAdd(clients, c) == IF Registered(clients, c) THEN clients ELSE Append(clients, c)

\* the head of the set removed, whatever the socket
SetDeleteShift(clients, c) ==
    IF Len(clients) = 0 THEN clients ELSE Tail(clients)

\* wsClients.delete(ws) (lines 71, 76): removes ws if present, else nothing
SetDelete(clients, c) == SelectSeq(clients, LAMBDA x : x # c)

\* the 'connected' message of lines 80-84
ConnectedMessage(version, now) ==
    Message("connected", [menuVersion |-> {version}], now)

\* the connection handler greeting with the version the server started with
ConnectStale(c) ==
    /\ sockets[c] = "new"
    /\ wsClients' = SetAdd(wsClients, c)
    /\ sockets' = [sockets EXCEPT ![c] = "open"]
    /\ joined' = [joined EXCEPT ![c] = Len(eventLog)]
    /\ inbox' = [inbox EXCEPT ![c] = Append(@, ConnectedMessage(1, clock))]
    /\ UNCHANGED <<serverVars, deliveries, lost, vcall, tcall, hcall>>

\* wss.on('connection') (lines 65-85): register, then greet
Connect(c) ==
    /\ sockets[c] = "new"
    /\ wsClients' = SetAdd(wsClients, c)
    /\ sockets' = [sockets EXCEPT ![c] = "open"]
    /\ joined' = [joined EXCEPT ![c] = Len(eventLog)]
    /\ inbox' = [inbox EXCEPT ![c] = Append(@, ConnectedMessage(menuVersion, clock))]
    /\ UNCHANGED <<serverVars, deliveries, lost, vcall, tcall, hcall>>

\* the connection of an open socket fails; the server has not noticed
LinkFails(c) ==
    /\ sockets[c] = "open"
    /\ sockets' = [sockets EXCEPT ![c] = "broken"]
    /\ UNCHANGED <<serverVars, deliveries, wsClients, inbox, lost, joined,
                   vcall, tcall, hcall>>

\* the peer closes an open socket: readyState leaves OPEN
PeerCloses(c) ==
    /\ sockets[c] = "open"
    /\ sockets' = [sockets EXCEPT ![c] = "closing"]
    /\ UNCHANGED <<serverVars, deliveries, wsClients, inbox, lost, joined,
                   vcall, tcall, hcall>>

\* ws.on('error') (lines 74-77)
OnError(c) ==
    /\ sockets[c] = "broken"
    /\ wsClients' = SetDelete(wsClients, c)
    /\ sockets' = [sockets EXCEPT ![c] = "errored"]
    /\ UNCHANGED <<serverVars, deliveries, inbox, lost, joined, vcall, tcall, hcall>>

\* ws.on('close') (lines 69-72); after an error the socket is closed too
OnClose(c) ==
    /\ sockets[c] \in {"closing", "errored"}
    /\ wsClients' = SetDelete(wsClients, c)
    /\ sockets' = [sockets EXCEPT ![c] = "done"]
    /\ UNCHANGED <<serverVars, deliveries, inbox, lost, joined, vcall, tcall, hcall>>

\* the position of a registered client in the iteration of forEach
Position(clients, c) == CHOOSE i \in DOMAIN clients : clients[i] = c

\* the loop without the most recently registered client
SendsSkipNewest(clients, socks, box, fails, message) ==
    LET sentTo(c) == /\ Registered(clients, c)
                     /\ Position(clients, c) < Len(clients)
                     /\ ReadyStateOpen(socks, c)
    IN  [inbox |-> [c \in DOMAIN box |->
                      IF sentTo(c) /\ socks[c] # "broken"
                      THEN Append(box[c], message) ELSE box[c]],
         lost |-> [c \in DOMAIN fails |->
                      IF sentTo(c) /\ socks[c] = "broken"
                      THEN fails[c] + 1 ELSE fails[c]]]

\* a failing send throws and ends the loop: the clients after it get nothing
SendsUntilFailure(clients, socks, box, fails, message) ==
    LET broken == {i \in DOMAIN clients : socks[clients[i]] = "broken"}
        sentTo(c) == /\ Registered(clients, c)
                     /\ \A i \in broken : Position(clients, c) <= i
                     /\ ReadyStateOpen(socks, c)
    IN  [inbox |-> [c \in DOMAIN box |->
                      IF sentTo(c) /\ socks[c] # "broken"
                      THEN Append(box[c], message) ELSE box[c]],
         lost |-> [c \in DOMAIN fails |->
                      IF sentTo(c) /\ socks[c] = "broken"
                      THEN fails[c] + 1 ELSE fails[c]]]

\* the loop of lines 90-94: send to each registered client whose readyState
\* is OPEN.  What is sent on a working connection is received; what is sent
\* on a broken one is lost, and the loop goes on.
Sends(clients, socks, box, fails, message) ==
    LET sentTo(c) == Registered(clients, c) /\ ReadyStateOpen(socks, c)
    IN  [inbox |-> [c \in DOMAIN box |->
                      IF sentTo(c) /\ socks[c] # "broken"
                      THEN Append(box[c], message) ELSE box[c]],
         lost |-> [c \in DOMAIN fails |->
                      IF sentTo(c) /\ socks[c] = "broken"
                      THEN fails[c] + 1 ELSE fails[c]]]

\* a call of broadcast (lines 88-95) in a handler
Broadcasts(message) ==
    /\ eventLog' = broadcast(eventLog, message)
    /\ inbox' = Sends(wsClients, sockets, inbox, lost, message).inbox
    /\ lost' = Sends(wsClients, sockets, inbox, lost, message).lost

-----------------------------------------------------------------------------

\* the menuVersion a broadcast message carries, as an optional value
CarriedVersion(m) ==
    IF m.event \in {"menu.published", "price.updated"} THEN m.data.menuVersion ELSE {}

\* res.status(..).json(..): the record of the request just handled
Respond(op, req, status, error, body) ==
    lastRequest' = [seq |-> clock + 1, op |-> op, req |-> req,
                    status |-> status, error |-> error, body |-> body]

\* a request arrives: requests are numbered, and new Date() is its number
Arrives ==
    /\ clock < MaxRequests
    /\ clock' = clock + 1

NoMutation == UNCHANGED <<catalog, orders, promotions, menuVersion, nextId,
                          eventLog, deliveries, inbox, lost>>

Frame == UNCHANGED <<webhookUrl, wsClients, sockets, joined, vcall, tcall, hcall>>

\* GET /health (lines 113-122); uptime is left out
GetHealth ==
    /\ Arrives
    /\ Frame
    /\ NoMutation
    /\ Respond("getHealth", {}, 200, {},
               {[ok |-> TRUE, menuVersion |-> menuVersion,
                 items |-> Cardinality(DOMAIN catalog),
                 orders |-> Cardinality(DOMAIN orders)]})

\* GET /catalog/items (lines 125-131): the active items, by id
GetCatalogItems ==
    /\ Arrives
    /\ Frame
    /\ NoMutation
    /\ Respond("getCatalogItems", {}, 200, {},
               {[items |-> [id \in {i \in DOMAIN catalog : catalog[i].isActive}
                              |-> catalog[id]],
                 menuVersion |-> menuVersion]})

\* the sort of lines 335-337: the orders, the most recently created first
SortedOrders(store) ==
    CHOOSE list \in [1..Cardinality(DOMAIN store) -> DOMAIN store] :
       /\ \A id \in DOMAIN store : \E i \in DOMAIN list : list[i] = id
       /\ \A i, j \in DOMAIN list :
             i < j => store[list[i]].createdAt >= store[list[j]].createdAt

\* GET /orders (lines 334-339)
GetOrders ==
    /\ Arrives
    /\ Frame
    /\ NoMutation
    /\ Respond("getOrders", {}, 200, {},
               {[orders |-> [i \in DOMAIN SortedOrders(orders) |->
                               orders[SortedOrders(orders)[i]]]]})

\* POST /catalog/items (lines 134-167)
CreateItem(body) ==
    /\ Arrives
    /\ Frame
    /\ IF \/ ~Has(body.name) \/ ~Has(body.category) \/ ~Has(body.price)
          \/ ~Has(body.minPrice) \/ ~Has(body.maxPrice)
       THEN /\ Respond("createItem", body, 400, {"Missing required fields"}, {})
            /\ NoMutation
       ELSE LET now == clock + 1
                item == [name |-> Val(body.name),
                         category |-> Val(body.category),
                         price |-> Val(body.price),
                         minPrice |-> Val(body.minPrice),
                         maxPrice |-> Val(body.maxPrice),
                         \* body.taxRate || 0.0825: a rate of 0 is falsy
                         taxRate |-> IF Has(body.taxRate) /\ Val(body.taxRate) # 0
                                     THEN Val(body.taxRate) ELSE DefaultTaxRate,
                         isActive |-> TRUE,
                         createdAt |-> now, updatedAt |-> now]
            IN  /\ catalog' = [id \in DOMAIN catalog \cup {nextId} |->
                                 IF id = nextId THEN item ELSE catalog[id]]
                /\ nextId' = nextId + 1
                /\ menuVersion' = menuVersion + 1
                /\ Broadcasts(
                       Message("menu.published",
                               [menuVersion |-> {menuVersion + 1}, item |-> {item},
                                deletedItemId |-> {}], now))
                /\ Respond("createItem", body, 201, {}, {item})
                /\ UNCHANGED <<orders, promotions, deliveries>>

\* the assignments of lines 181-189
PatchItem(item, body, now) ==
    [name |-> IF Has(body.name) THEN Val(body.name) ELSE item.name,
     category |-> IF Has(body.category) THEN Val(body.category) ELSE item.category,
     price |-> IF Has(body.price) THEN Val(body.price) ELSE item.price,
     minPrice |-> IF Has(body.minPrice) THEN Val(body.minPrice) ELSE item.minPrice,
     maxPrice |-> IF Has(body.maxPrice) THEN Val(body.maxPrice) ELSE item.maxPrice,
     taxRate |-> IF Has(body.taxRate) THEN Val(body.taxRate) ELSE item.taxRate,
     isActive |-> IF Has(body.isActive) THEN Val(body.isActive) ELSE item.isActive,
     createdAt |-> item.createdAt,
     updatedAt |-> now]

\* PATCH /catalog/items/:id (lines 170-200)
UpdateItem(id, body) ==
    /\ Arrives
    /\ Frame
    /\ IF id \notin DOMAIN catalog
       THEN /\ Respond("updateItem", [id |-> id, body |-> body], 404,
                       {"Item not found"}, {})
            /\ NoMutation
       ELSE LET now == clock + 1
                item == PatchItem(catalog[id], body, now)
            IN  /\ catalog' = [catalog EXCEPT ![id] = item]
                /\ menuVersion' = menuVersion + 1
                /\ Broadcasts(
                       Message("menu.published",
                               [menuVersion |-> {menuVersion + 1}, item |-> {item},
                                deletedItemId |-> {}], now))
                /\ Respond("updateItem", [id |-> id, body |-> body], 200, {}, {item})
                /\ UNCHANGED <<orders, promotions, nextId, deliveries>>

\* DELETE that also drops the stored orders with a line for the item
DeleteItemCascade(id) ==
    /\ Arrives
    /\ Frame
    /\ IF id \notin DOMAIN catalog
       THEN /\ Respond("deleteItem", [id |-> id], 404, {"Item not found"}, {})
            /\ NoMutation
       ELSE LET now == clock + 1
                kept == {o \in DOMAIN orders :
                           \A i \in DOMAIN orders[o].items :
                              orders[o].items[i].itemId # id}
            IN  /\ catalog' = [i \in DOMAIN catalog \ {id} |-> catalog[i]]
                /\ orders' = [o \in kept |-> orders[o]]
                /\ menuVersion' = menuVersion + 1
                /\ Broadcasts(
                       Message("menu.published",
                               [menuVersion |-> {menuVersion + 1}, item |-> {},
                                deletedItemId |-> {id}], now))
                /\ Respond("deleteItem", [id |-> id], 200, {},
                           {[id |-> id, deleted |-> TRUE,
                             menuVersion |-> menuVersion + 1]})
                /\ UNCHANGED <<promotions, nextId, deliveries>>

\* DELETE that answers without the broadcast
DeleteItemSilent(id) ==
    /\ Arrives
    /\ Frame
    /\ IF id \notin DOMAIN catalog
       THEN /\ Respond("deleteItem", [id |-> id], 404, {"Item not found"}, {})
            /\ NoMutation
       ELSE /\ catalog' = [i \in DOMAIN catalog \ {id} |-> catalog[i]]
            /\ menuVersion' = menuVersion + 1
            /\ Respond("deleteItem", [id |-> id], 200, {},
                       {[id |-> id, deleted |-> TRUE,
                         menuVersion |-> menuVersion + 1]})
            /\ UNCHANGED <<orders, promotions, nextId, deliveries, eventLog,
                           inbox, lost>>

\* DELETE /catalog/items/:id (lines 203-224)
DeleteItem(id) ==
    /\ Arrives
    /\ Frame
    /\ IF id \notin DOMAIN catalog
       THEN /\ Respond("deleteItem", [id |-> id], 404, {"Item not found"}, {})
            /\ NoMutation
       ELSE LET now == clock + 1
            IN  /\ catalog' = [i \in DOMAIN catalog \ {id} |-> catalog[i]]
                /\ menuVersion' = menuVersion + 1
                /\ Broadcasts(
                       Message("menu.published",
                               [menuVersion |-> {menuVersion + 1}, item |-> {},
                                deletedItemId |-> {id}], now))
                /\ Respond("deleteItem", [id |-> id], 200, {},
                           {[id |-> id, deleted |-> TRUE,
                             menuVersion |-> menuVersion + 1]})
                /\ UNCHANGED <<orders, promotions, nextId, deliveries>>


\* the version after a price update with the publish flag never looked at
VersionAfterPriceUpdateNever(body, version) == version

\* the version after a price update with the publish flag always taken as set
VersionAfterPriceUpdateAlways(body, version) == version + 1

\* lines 255-257: if (body.publish) menuVersion++
VersionAfterPriceUpdate(body, version) ==
    IF Has(body.publish) /\ Val(body.publish) THEN version + 1 ELSE version

\* POST /pricing/:itemId (lines 227-277)
UpdatePrice(itemId, body) ==
    /\ Arrives
    /\ Frame
    /\ LET req == [itemId |-> itemId, body |-> body]
       IN  IF ~Has(body.price)
           THEN /\ Respond("updatePrice", req, 400, {"Price is required"}, {})
                /\ NoMutation
           ELSE IF itemId \notin DOMAIN catalog
           THEN /\ Respond("updatePrice", req, 404, {"Item not found"}, {})
                /\ NoMutation
           ELSE LET validation == validatePrice(catalog[itemId], Val(body.price),
                                                body.overrideGuardrails)
                    now == clock + 1
                    publish == Has(body.publish) /\ Val(body.publish)
                    item == [catalog[itemId] EXCEPT !.price = Val(body.price),
                                                    !.updatedAt = now]
                    version == VersionAfterPriceUpdate(body, menuVersion)
                IN  IF ~validation.valid
                    THEN /\ Respond("updatePrice", req, 400, validation.message, {})
                         /\ NoMutation
                    ELSE /\ catalog' = [catalog EXCEPT ![itemId] = item]
                         /\ menuVersion' = version
                         /\ Broadcasts(
                               Message("price.updated",
                                   [itemId |-> itemId, name |-> item.name,
                                    oldPrice |-> catalog[itemId].price,
                                    newPrice |-> Val(body.price),
                                    menuVersion |-> IF publish THEN {version} ELSE {}],
                                   now))
                         /\ Respond("updatePrice", req, 200, {},
                                    {[item |-> item, menuVersion |-> version,
                                      published |-> publish]})
                         /\ UNCHANGED <<orders, promotions, nextId, deliveries>>

\* the promotion stored before its item is looked up
CreatePromotionStoreFirst(body) ==
    /\ Arrives
    /\ Frame
    /\ IF ~Has(body.itemId) \/ ~Has(body.kind) \/ ~Has(body.value)
       THEN /\ Respond("createPromotion", body, 400, {"Missing required fields"}, {})
            /\ NoMutation
       ELSE LET now == clock + 1
                promotion == [itemId |-> Val(body.itemId), kind |-> Val(body.kind),
                              value |-> Val(body.value),
                              startsAt |-> body.startsAt, endsAt |-> body.endsAt,
                              isActive |-> TRUE, createdAt |-> now]
            IN  /\ promotions' = [id \in DOMAIN promotions \cup {nextId} |->
                                    IF id = nextId THEN promotion ELSE promotions[id]]
                /\ nextId' = nextId + 1
                /\ UNCHANGED <<catalog, orders, menuVersion, deliveries>>
                /\ IF Val(body.itemId) \notin DOMAIN catalog
                   THEN /\ Respond("createPromotion", body, 404,
                                   {"Item not found"}, {})
                        /\ UNCHANGED <<eventLog, inbox, lost>>
                   ELSE /\ Broadcasts(
                               Message("promotion.created", promotion, now))
                        /\ Respond("createPromotion", body, 201, {}, {promotion})

\* POST /promotions (lines 280-316)
CreatePromotion(body) ==
    /\ Arrives
    /\ Frame
    /\ IF ~Has(body.itemId) \/ ~Has(body.kind) \/ ~Has(body.value)
       THEN /\ Respond("createPromotion", body, 400, {"Missing required fields"}, {})
            /\ NoMutation
       ELSE IF Val(body.itemId) \notin DOMAIN catalog
       THEN /\ Respond("createPromotion", body, 404, {"Item not found"}, {})
            /\ NoMutation
       ELSE LET now == clock + 1
                promotion == [itemId |-> Val(body.itemId), kind |-> Val(body.kind),
                              value |-> Val(body.value),
                              startsAt |-> body.startsAt, endsAt |-> body.endsAt,
                              isActive |-> TRUE, createdAt |-> now]
            IN  /\ promotions' = [id \in DOMAIN promotions \cup {nextId} |->
                                    IF id = nextId THEN promotion ELSE promotions[id]]
                /\ nextId' = nextId + 1
                /\ Broadcasts(
                       Message("promotion.created", promotion, now))
                /\ Respond("createPromotion", body, 201, {}, {promotion})
                /\ UNCHANGED <<catalog, orders, menuVersion, deliveries>>

\* the publish that answers without the broadcast
PublishMenuSilent ==
    /\ Arrives
    /\ Frame
    /\ LET now == clock + 1
       IN  /\ menuVersion' = menuVersion + 1
           /\ Respond("publishMenu", {}, 200, {},
                      {[menuVersion |-> menuVersion + 1, publishedAt |-> now]})
           /\ UNCHANGED <<catalog, orders, promotions, nextId, deliveries,
                          eventLog, inbox, lost>>

\* POST /menu/publish (lines 319-331)
PublishMenu ==
    /\ Arrives
    /\ Frame
    /\ LET now == clock + 1
       IN  /\ menuVersion' = menuVersion + 1
           /\ Broadcasts(
                  Message("menu.published",
                          [menuVersion |-> {menuVersion + 1}, item |-> {},
                           deletedItemId |-> {}], now))
           /\ Respond("publishMenu", {}, 200, {},
                      {[menuVersion |-> menuVersion + 1, publishedAt |-> now]})
           /\ UNCHANGED <<catalog, orders, promotions, nextId, deliveries>>

\* lines 355-369: the order built from the calculation
MakeOrder(id, calc, now) ==
    [id |-> id,
     items |-> calc.items,
     subtotal |-> calc.subtotal,
     tax |-> calc.tax,
     total |-> calc.total,
     status |-> "completed",
     createdAt |-> now]

\* lines 382-395: the webhook payload built from the order
WebhookPayload(order, now) ==
    [orderId |-> order.id,
     venueId |-> "pos-sim-venue-001",
     timestamp |-> now,
     items |-> [i \in DOMAIN order.items |->
                  [itemId |-> order.items[i].itemId, name |-> order.items[i].name,
                   quantity |-> order.items[i].quantity,
                   price |-> order.items[i].price]],
     subtotal |-> order.subtotal,
     tax |-> order.tax,
     total |-> order.total]

\* sendWebhook's default maxRetries (part_000:37)
DefaultMaxRetries == 3

\* POST /orders (lines 342-409)
CreateOrder(body) ==
    /\ Arrives
    /\ Frame
    /\ IF ~Has(body.items) \/ Len(Val(body.items)) = 0
       THEN /\ Respond("createOrder", body, 400,
                       {"Items array is required and must not be empty"}, {})
            /\ NoMutation
       ELSE LET orderCalculation == calculateOrderTotals(Val(body.items), catalog)
                now == clock + 1
                order == MakeOrder(nextId, orderCalculation, now)
            IN  IF ~orderCalculation.ok
                THEN \* the catch of line 405
                     /\ Respond("createOrder", body, 400, {orderCalculation.error}, {})
                     /\ NoMutation
                ELSE /\ orders' = [id \in DOMAIN orders \cup {nextId} |->
                                     IF id = nextId THEN order ELSE orders[id]]
                     /\ nextId' = nextId + 1
                     /\ Broadcasts(
                            Message("order.created", order, now))
                     /\ deliveries' =
                          IF webhookUrl
                          THEN [k \in DOMAIN deliveries \cup {nextId} |->
                                  IF k = nextId
                                  THEN sendWebhook(WebhookPayload(order, now),
                                                   WEBHOOK_SECRET, DefaultMaxRetries)
                                  ELSE deliveries[k]]
                          ELSE deliveries
                     /\ Respond("createOrder", body, 201, {}, {order})
                     /\ UNCHANGED <<catalog, promotions, menuVersion>>

-----------------------------------------------------------------------------
(* Request inputs *)

Line(itemId, qty) == [itemId |-> itemId, qty |-> qty]

\* price-update bodies: a price below the IPA Pint's minimum (5.00), one inside
\* its band that is not a whole number of cents (9.994), one above its maximum
\* (12.00), and no price; publish and overrideGuardrails absent or true
PriceBodies ==
    [price : {{}, {3000}, {9994}, {13000}},
     publish : {{}, {TRUE}},
     overrideGuardrails : {{}, {TRUE}}]

\* item 1 is the IPA Pint; id 0 is never generated, so it is never in a store
PriceRequests ==
    ({1} \X PriceBodies)
    \cup {<<0, [price |-> {9994}, publish |-> {TRUE}, overrideGuardrails |-> {}]>>}

CreateItemBodies ==
    {[name |-> {"Cider"}, category |-> {"Beer"}, price |-> {4995},
      minPrice |-> {4000}, maxPrice |-> {8000}, taxRate |-> {}],
     [name |-> {"Shot"}, category |-> {"Spirits"}, price |-> {6000},
      minPrice |-> {9000}, maxPrice |-> {5000}, taxRate |-> {0}],
     [name |-> {}, category |-> {"Beer"}, price |-> {4995},
      minPrice |-> {4000}, maxPrice |-> {8000}, taxRate |-> {}]}

NoPatch ==
    [name |-> {}, category |-> {}, price |-> {}, minPrice |-> {}, maxPrice |-> {},
     taxRate |-> {}, isActive |-> {}]

UpdateItemRequests ==
    {<<1, [NoPatch EXCEPT !.price = {13000}]>>,
     <<1, [NoPatch EXCEPT !.name = {"IPA"}, !.taxRate = {100}, !.isActive = {FALSE}]>>,
     <<0, [NoPatch EXCEPT !.price = {13000}]>>}

DeleteItemRequests == {0, 1}

PromotionBodies ==
    {[itemId |-> {1}, kind |-> {"percent_off"}, value |-> {50},
      startsAt |-> {}, endsAt |-> {}],
     [itemId |-> {0}, kind |-> {"amount_off"}, value |-> {1000},
      startsAt |-> {}, endsAt |-> {}],
     [itemId |-> {1}, kind |-> {}, value |-> {50},
      startsAt |-> {}, endsAt |-> {}]}

\* create-order bodies: no items, an empty list, valid lists (one repeating an
\* item), lists whose first, last or middle line names an absent item, and a
\* line for the first item a client creates (id 6)
OrderBodies ==
    {[items |-> {}],
     [items |-> {<<>>}],
     [items |-> {<<Line(1, 1)>>}],
     [items |-> {<<Line(1, 2), Line(1, 1)>>}],
     [items |-> {<<Line(0, 1)>>}],
     [items |-> {<<Line(1, 1), Line(0, 1)>>}],
     [items |-> {<<Line(1, 1), Line(0, 1), Line(1, 2)>>}],
     [items |-> {<<Line(6, 1), Line(1, 1)>>}]}

-----------------------------------------------------------------------------
(* The server: its state after construction and its steps *)

NoRequest ==
    [seq |-> 0, op |-> "none", req |-> {}, status |-> 0, error |-> {}, body |-> {}]

NoCall == [done |-> FALSE, result |-> {}]

ServerInit ==
    /\ catalog = SeedCatalog
    /\ orders = <<>>
    /\ promotions = <<>>
    /\ menuVersion = 1
    /\ webhookUrl \in BOOLEAN
    /\ nextId = Len(getSeedItems) + 1
    /\ clock = 0
    /\ eventLog = <<>>
    /\ lastRequest = NoRequest
    /\ deliveries = <<>>
    /\ wsClients = <<>>
    /\ sockets = [c \in Clients |-> "new"]
    /\ inbox = [c \in Clients |-> <<>>]
    /\ lost = [c \in Clients |-> 0]
    /\ joined = [c \in Clients |-> 0]

Init ==
    /\ ServerInit
    /\ vcall = NoCall
    /\ tcall = NoCall
    /\ hcall = NoCall

Next ==
    \/ \E body \in CreateItemBodies : CreateItem(body)
    \/ \E r \in UpdateItemRequests : UpdateItem(r[1], r[2])
    \/ \E id \in DeleteItemRequests : DeleteItem(id)
    \/ \E r \in PriceRequests : UpdatePrice(r[1], r[2])
    \/ \E body \in PromotionBodies : CreatePromotion(body)
    \/ PublishMenu
    \/ \E body \in OrderBodies : CreateOrder(body)
    \/ GetHealth
    \/ GetCatalogItems
    \/ GetOrders
    \/ \E k \in DOMAIN deliveries, outcome \in FetchOutcomes :
          WebhookFetchSettles(k, outcome)
    \/ \E k \in DOMAIN deliveries : WebhookSleepEnds(k)

Spec == Init /\ [][Next]_vars

-----------------------------------------------------------------------------
(* validatePrice on its own: one call with inputs drawn from bounded sets *)

\* the IPA Pint with each pairing of two bounds: the seed band [5, 12], the
\* two one-point bands and the inverted band (min 12, max 5) that item
\* create and item update can produce
ValidateItems ==
    {[getSeedItems[1] EXCEPT !.minPrice = lo, !.maxPrice = hi] :
        lo \in {5000, 12000}, hi \in {5000, 12000}}

ValidatePrices == {4999, 5000, 5001, 8500, 11999, 12000, 12001}

ValidateInit ==
    /\ ServerInit
    /\ tcall = NoCall
    /\ hcall = NoCall
    /\ vcall \in [item : ValidateItems, newPrice : ValidatePrices,
                  overrideGuardrails : {{}, {FALSE}, {TRUE}},
                  done : {FALSE}, result : {{}}]

ValidateCall ==
    /\ ~vcall.done
    /\ vcall' = [vcall EXCEPT
                   !.done = TRUE,
                   !.result = {validatePrice(vcall.item, vcall.newPrice,
                                             vcall.overrideGuardrails)}]
    /\ UNCHANGED <<serverVars, deliveries, clientVars, tcall, hcall>>

SpecValidate == ValidateInit /\ [][ValidateCall]_vars

-----------------------------------------------------------------------------
(* calculateOrderTotals on its own *)

\* the seed catalog, and the seed catalog with prices that are not whole
\* cents (9.994 and 1.004) and a second tax rate (0.25)
TotalsCatalogs ==
    {SeedCatalog,
     [SeedCatalog EXCEPT ![1].price = 9994, ![2].price = 1004, ![2].taxRate = 100]}

\* lines over the items 1 and 2 and the absent id 0
TotalsLines == {Line(id, q) : id \in {0, 1, 2}, q \in 1..MaxQty}

TotalsLineLists == UNION {[1..n -> TotalsLines] : n \in 0..MaxLines}

TotalsInit ==
    /\ ServerInit
    /\ vcall = NoCall
    /\ hcall = NoCall
    /\ tcall \in [items : TotalsLineLists, cat : TotalsCatalogs,
                  done : {FALSE}, result : {{}}]

TotalsCall ==
    /\ ~tcall.done
    /\ tcall' = [tcall EXCEPT
                   !.done = TRUE,
                   !.result = {calculateOrderTotals(tcall.items, tcall.cat)}]
    /\ UNCHANGED <<serverVars, deliveries, clientVars, vcall, hcall>>

SpecTotals == TotalsInit /\ [][TotalsCall]_vars

-----------------------------------------------------------------------------
(* verifyHmacSignature on its own (part_000:25-28).  A signature is a      *)
(* string; the model tells apart the hex digest of a payload under a       *)
(* secret, that digest without its last character, that digest with its    *)
(* last character changed, and the empty string.  Digests of different     *)
(* (payload, secret) pairs are taken to differ.                            *)

\* digest('hex') of a SHA-256 HMAC has 64 characters (part_000:19)
HexDigestLength == 64

CutSignature(digest) == <<"hmac-sha256 cut", digest[2], digest[3]>>

AlteredSignature(digest) == <<"hmac-sha256 altered", digest[2], digest[3]>>

EmptySignature == <<"", "", "">>

\* Buffer.from(signature).length
ByteLength(signature) ==
    CASE signature[1] \in {"hmac-sha256", "hmac-sha256 altered"} -> HexDigestLength
      [] signature[1] = "hmac-sha256 cut" -> HexDigestLength - 1
      [] OTHER -> 0

\* crypto.timingSafeEqual(a, b) (line 27) throws a RangeError when the byte
\* lengths of a and b differ
timingSafeEqual(a, b) ==
    IF ByteLength(a) # ByteLength(b) THEN "RangeError"
    ELSE IF a = b THEN "true" ELSE "false"

\* lines 25-28: "true", "false", or the error thrown
verifyHmacSignature(payload, signature, secret) ==
    LET expectedSignature == generateHmacSignature(payload, secret)
    IN  timingSafeEqual(signature, expectedSignature)

VerifyPayloads == {"{\"orderId\":1}", "{\"orderId\":2}", ""}

VerifySecrets == {WEBHOOK_SECRET, "another secret"}

VerifySignatures ==
    LET digests == {generateHmacSignature(p, k) : p \in VerifyPayloads,
                                                  k \in VerifySecrets}
    IN  digests \cup {CutSignature(d) : d \in digests}
                \cup {AlteredSignature(d) : d \in digests}
                \cup {EmptySignature}

VerifyInit ==
    /\ ServerInit
    /\ vcall = NoCall
    /\ tcall = NoCall
    /\ hcall \in [payload : VerifyPayloads, signature : VerifySignatures,
                  secret : VerifySecrets, done : {FALSE}, result : {{}}]

VerifyCall ==
    /\ ~hcall.done
    /\ hcall' = [hcall EXCEPT
                   !.done = TRUE,
                   !.result = {verifyHmacSignature(hcall.payload, hcall.signature,
                                                   hcall.secret)}]
    /\ UNCHANGED <<serverVars, deliveries, clientVars, vcall, tcall>>

SpecVerify == VerifyInit /\ [][VerifyCall]_vars

-----------------------------------------------------------------------------
(* The server with WebSocket clients.  A webhook endpoint is configured.   *)
(* The sockets of Clients connect, fail and close while menus are          *)
(* published, a price is updated and orders are created.                   *)

SubscribedPriceRequests ==
    {r \in PriceRequests :
        r[1] = 1 /\ r[2].price = {9994} /\ ~Has(r[2].overrideGuardrails)}

SubscribedOrderBodies ==
    {[items |-> {<<Line(1, 1)>>}],
     [items |-> {<<Line(1, 1), Line(0, 1)>>}]}

SubscribedInit ==
    /\ Init
    /\ webhookUrl

SubscribedNext ==
    \/ \E c \in Clients : Connect(c)
    \/ \E c \in Clients : LinkFails(c)
    \/ \E c \in Clients : PeerCloses(c)
    \/ \E c \in Clients : OnError(c)
    \/ \E c \in Clients : OnClose(c)
    \/ \E r \in SubscribedPriceRequests : UpdatePrice(r[1], r[2])
    \/ PublishMenu
    \/ \E body \in SubscribedOrderBodies : CreateOrder(body)

SpecSubscribed == SubscribedInit /\ [][SubscribedNext]_vars

-----------------------------------------------------------------------------
(* The server with WebSocket clients that connect and close, and every     *)
(* kind of mutating request, each with an input that succeeds; an item     *)
(* delete and an order also arrive with an input that is refused.          *)

ServedItemBodies ==
    {b \in CreateItemBodies : Has(b.name) /\ Val(b.name) = "Cider"}

ServedUpdateRequests ==
    {r \in UpdateItemRequests : r[1] = 1 /\ Has(r[2].price)}

ServedPromotionBodies ==
    {b \in PromotionBodies : Has(b.kind) /\ b.itemId = {1}}

ServedNext ==
    \/ \E c \in Clients : Connect(c)
    \/ \E c \in Clients : PeerCloses(c)
    \/ \E c \in Clients : OnClose(c)
    \/ \E body \in ServedItemBodies : CreateItem(body)
    \/ \E r \in ServedUpdateRequests : UpdateItem(r[1], r[2])
    \/ \E id \in DeleteItemRequests : DeleteItem(id)
    \/ \E r \in SubscribedPriceRequests : UpdatePrice(r[1], r[2])
    \/ \E body \in ServedPromotionBodies : CreatePromotion(body)
    \/ PublishMenu
    \/ \E body \in SubscribedOrderBodies : CreateOrder(body)

SpecServed == SubscribedInit /\ [][ServedNext]_vars

-----------------------------------------------------------------------------
(* Webhook deliveries that run to their end.  Orders are created with a    *)
(* webhook endpoint configured; every fetch that has been issued settles   *)
(* and every sleep that has begun ends.                                    *)

\* the ids the orders of one behaviour can get
DeliveryIds == (Len(getSeedItems) + 1)..(Len(getSeedItems) + MaxRequests)

DeliveryNext ==
    \/ \E body \in SubscribedOrderBodies : CreateOrder(body)
    \/ \E k \in DOMAIN deliveries, outcome \in FetchOutcomes :
          WebhookFetchSettles(k, outcome)
    \/ \E k \in DOMAIN deliveries : WebhookSleepEnds(k)

\* await fetch(..) and await sleep(..) resume (part_000:47, 65, 74)
DeliveryFairness ==
    \A k \in DeliveryIds :
       /\ WF_vars(\E outcome \in FetchOutcomes : WebhookFetchSettles(k, outcome))
       /\ WF_vars(WebhookSleepEnds(k))

SpecDelivery == SubscribedInit /\ [][DeliveryNext]_vars /\ DeliveryFairness

-----------------------------------------------------------------------------
(* Webhook delivery: retries and backoff *)

IsPrefix(p, q) == Len(p) <= Len(q) /\ \A i \in 1..Len(p) : p[i] = q[i]

\* a delivery in which no attempt has succeeded: every settled fetch failed
AllFailed(d) == d.state # "success"

\* C1: a delivery with the default retry budget whose every attempt fails
\* makes exactly 4 attempts, sleeps 1000, 2000 and 4000 ms between consecutive
\* attempts, does not sleep after the 4th, and ends rejected ("failed"):
\* while it runs it has made at most 4 attempts with the waits so far a prefix
\* of <<1000, 2000, 4000>>, one wait between two attempts; it never leaves
\* the loop by another way; and once ended it is failed after 4 attempts, 4
\* failures and exactly those three waits.
C1_AlwaysFailingDelivery ==
    \A k \in DOMAIN deliveries :
        LET d == deliveries[k]
        IN  (d.maxRetries = DefaultMaxRetries /\ AllFailed(d)) =>
              /\ d.attempts <= 4
              /\ IsPrefix(d.waits, <<1000, 2000, 4000>>)
              /\ d.state = "sending" => Len(d.waits) = d.attempts - 1
              /\ d.state = "sleeping" => Len(d.waits) = d.attempts
              /\ d.state \in {"sending", "sleeping", "failed"}
              /\ d.state = "failed" =>
                    /\ d.attempts = 4
                    /\ d.failures = 4
                    /\ d.waits = <<1000, 2000, 4000>>

\* a delivery has been rejected after its 4th failed attempt
C1_Witness ==
    \E k \in DOMAIN deliveries :
        /\ deliveries[k].state = "failed"
        /\ deliveries[k].attempts = 4
        /\ deliveries[k].lastOutcome \in {"non2xx", "error"}

\* C2: a delivery whose first k-1 attempts fail and whose k-th attempt gets a
\* 2xx response (k in 1..4) ends in success after exactly k attempts: a fetch
\* that settles with a 2xx response leaves the delivery in "success" with
\* attempts = failures + 1 = k and one wait per failure, it is never failed,
\* and a successful delivery never changes again (no further attempt, no
\* further wait).
C2_SuccessStopsDelivery ==
    /\ [](\A k \in DOMAIN deliveries :
            LET d == deliveries[k]
            IN  /\ d.lastOutcome = "ok" <=> d.state = "success"
                /\ d.state = "success" =>
                      /\ d.attempts \in 1..4
                      /\ d.attempts = d.failures + 1
                      /\ Len(d.waits) = d.failures)
    /\ [][\A k \in DOMAIN deliveries :
            deliveries[k].state = "success" =>
               /\ k \in DOMAIN deliveries'
               /\ deliveries'[k] = deliveries[k]]_vars

\* a delivery succeeded at its 4th attempt, after three failures
C2_Witness ==
    \E k \in DOMAIN deliveries :
        /\ deliveries[k].state = "success"
        /\ deliveries[k].attempts = 4
        /\ deliveries[k].failures = 3

-----------------------------------------------------------------------------
(* Order creation and webhook delivery *)

\* this step handles a request (every handler numbers its response)
Handles(op) == lastRequest'.seq # lastRequest.seq /\ lastRequest'.op = op

\* the lines of a create-order body all name items of the catalog
ValidLines(body, cat) ==
    /\ Has(body.items)
    /\ Len(Val(body.items)) > 0
    /\ \A i \in DOMAIN Val(body.items) : Val(body.items)[i].itemId \in DOMAIN cat

\* C3: the outcome of webhook delivery never affects order creation.  A
\* create-order request with valid lines is answered 201 with the order, which
\* is stored, whatever state the earlier deliveries are in; when the response
\* is produced the order's own delivery has only issued its first fetch, which
\* has not settled; and no step of a delivery (a fetch settling, with success,
\* a retry or exhaustion, or a sleep ending) changes the catalog, the orders,
\* the promotions, menuVersion, the broadcast log or the response given.
C3_DeliveryNeverAffectsOrder ==
    [][/\ (Handles("createOrder") /\ ValidLines(lastRequest'.req, catalog)) =>
            /\ lastRequest'.status = 201
            /\ \E id \in DOMAIN orders' \ DOMAIN orders :
                  /\ lastRequest'.body = {orders'[id]}
                  /\ DOMAIN orders' = DOMAIN orders \cup {id}
                  /\ webhookUrl =>
                        /\ id \in DOMAIN deliveries'
                        /\ deliveries'[id].state = "sending"
                        /\ deliveries'[id].attempts = 1
                        /\ deliveries'[id].lastOutcome = "none"
       /\ (deliveries' # deliveries /\ lastRequest'.seq = lastRequest.seq) =>
            UNCHANGED <<catalog, orders, promotions, menuVersion, eventLog,
                        lastRequest>>]_vars

\* an order was answered 201 and stored while the delivery of an earlier
\* order was exhausted, and both orders are in the store
C3_Witness ==
    /\ lastRequest.op = "createOrder"
    /\ lastRequest.status = 201
    /\ \E k \in DOMAIN deliveries, id \in DOMAIN orders :
          /\ deliveries[k].state = "failed"
          /\ k \in DOMAIN orders
          /\ k < id
          /\ lastRequest.body = {orders[id]}
          /\ deliveries[id].state = "failed"

-----------------------------------------------------------------------------
(* Price guardrails *)

\* the override argument as validatePrice's caller means it
Overrides(opt) == Has(opt) /\ Val(opt)

\* the reason of an invalid result names this bound with this value
NamesBound(result, which, bound) ==
    /\ Has(result.message)
    /\ Val(result.message)[1] = which
    /\ Val(result.message)[3] = bound

\* what C4 says of a finished call, but for the reason given when the price
\* is above the maximum
GuardrailVerdict(call) ==
    LET r == Val(call.result)
        p == call.newPrice
        lo == call.item.minPrice
        hi == call.item.maxPrice
    IN  /\ Overrides(call.overrideGuardrails) => r.valid
        /\ ~Overrides(call.overrideGuardrails) => (r.valid <=> (lo <= p /\ p <= hi))
        /\ r.valid => ~Has(r.message)
        /\ (~r.valid /\ p < lo) => NamesBound(r, "below minimum", lo)

\* C4 as amended: validatePrice(item, p, override = false or absent) is valid
\* iff minPrice <= p <= maxPrice (a price on either bound is valid), and with
\* override = true it is valid for every p; an invalid result names the
\* minimum when p < minPrice, and names the maximum when p > maxPrice and p is
\* not also below the minimum.
C4_GuardrailAmended ==
    vcall.done =>
        /\ GuardrailVerdict(vcall)
        /\ (/\ ~Val(vcall.result).valid
            /\ vcall.newPrice > vcall.item.maxPrice
            /\ ~(vcall.newPrice < vcall.item.minPrice))
           => NamesBound(Val(vcall.result), "above maximum", vcall.item.maxPrice)

\* C4 as claimed: the reason names the maximum whenever p > maxPrice
C4_GuardrailAsClaimed ==
    vcall.done =>
        /\ GuardrailVerdict(vcall)
        /\ (~Val(vcall.result).valid /\ vcall.newPrice > vcall.item.maxPrice)
           => NamesBound(Val(vcall.result), "above maximum", vcall.item.maxPrice)

\* a call without override whose price is above the maximum and not below
\* the minimum has been found invalid, the reason naming the maximum
C4_Witness ==
    /\ vcall.done
    /\ ~Overrides(vcall.overrideGuardrails)
    /\ vcall.newPrice > vcall.item.maxPrice
    /\ vcall.newPrice >= vcall.item.minPrice
    /\ ~Val(vcall.result).valid
    /\ NamesBound(Val(vcall.result), "above maximum", vcall.item.maxPrice)

\* the price of an update request lies outside the item's band
OutsideBand(req, cat) ==
    /\ Has(req.body.price)
    /\ req.itemId \in DOMAIN cat
    /\ \/ Val(req.body.price) < cat[req.itemId].minPrice
       \/ Val(req.body.price) > cat[req.itemId].maxPrice

\* C5: a price update whose price is outside [minPrice, maxPrice] and that
\* does not set overrideGuardrails is rejected (400, the reason naming a
\* bound) and mutates nothing: the catalog (so the item's price and
\* updatedAt and every other item), menuVersion, orders and promotions are
\* unchanged and nothing is broadcast, also when publish is set.
C5_RejectedPriceUpdate ==
    [][(/\ Handles("updatePrice")
        /\ OutsideBand(lastRequest'.req, catalog)
        /\ ~Overrides(lastRequest'.req.body.overrideGuardrails))
       => /\ lastRequest'.status = 400
          /\ Has(lastRequest'.error)
          /\ Val(lastRequest'.error)[1] \in {"below minimum", "above maximum"}
          /\ UNCHANGED <<catalog, orders, promotions, menuVersion, eventLog,
                         deliveries, nextId>>]_vars

\* an update of the IPA Pint to a price below its minimum, with publish set
\* and no override, has been rejected
C5_Witness ==
    /\ lastRequest.op = "updatePrice"
    /\ lastRequest.status = 400
    /\ OutsideBand(lastRequest.req, catalog)
    /\ ~Overrides(lastRequest.req.body.overrideGuardrails)
    /\ Overrides(lastRequest.req.body.publish)
    /\ Val(lastRequest.req.body.price) < catalog[lastRequest.req.itemId].minPrice

-----------------------------------------------------------------------------
(* Order totals *)

\* C6: every stored order satisfies subtotal + tax = total on its stored,
\* 2-decimal fields.
C6_SubtotalPlusTaxIsTotal ==
    \A id \in DOMAIN orders :
        orders[id].subtotal + orders[id].tax = orders[id].total

RECURSIVE SumOver(_, _)
\* the sum of f[i] over the indices i in S
SumOver(f, S) ==
    IF S = {} THEN 0
    ELSE LET i == CHOOSE i \in S : TRUE IN f[i] + SumOver(f, S \ {i})

\* price * qty of each line, in mills
LineSubtotals(items, cat) ==
    [i \in DOMAIN items |-> cat[items[i].itemId].price * items[i].qty]

\* price * qty * taxRate of each line, in mills/400
LineTaxes(items, cat) ==
    [i \in DOMAIN items |->
        cat[items[i].itemId].price * items[i].qty * cat[items[i].itemId].taxRate]

AllExist(items, cat) == \A i \in DOMAIN items : items[i].itemId \in DOMAIN cat

\* C7: for a non-empty list of lines that names only existing items,
\* calculateOrderTotals returns subtotal = round2(sum of price*qty),
\* tax = round2(sum of price*qty*taxRate) and total = round2(unrounded
\* subtotal + unrounded tax), each rounded on its own from the unrounded sums;
\* the sums run over the lines, so an item named twice counts twice.  It
\* returns one line per request line, in order, with the item's id, name and
\* price and the quantity asked.
C7_TotalsFromUnroundedSums ==
    (tcall.done /\ Len(tcall.items) > 0 /\ AllExist(tcall.items, tcall.cat)) =>
        LET r == Val(tcall.result)
            sub == SumOver(LineSubtotals(tcall.items, tcall.cat), DOMAIN tcall.items)
            tx == SumOver(LineTaxes(tcall.items, tcall.cat), DOMAIN tcall.items)
        IN  /\ r.ok
            /\ r.subtotal = Round2(sub, 1)
            /\ r.tax = Round2(tx, RateDen)
            /\ r.total = Round2(sub * RateDen + tx, RateDen)
            /\ Len(r.items) = Len(tcall.items)
            /\ \A i \in DOMAIN tcall.items :
                  /\ r.items[i].itemId = tcall.items[i].itemId
                  /\ r.items[i].quantity = tcall.items[i].qty
                  /\ r.items[i].price = tcall.cat[tcall.items[i].itemId].price
                  /\ r.items[i].name = tcall.cat[tcall.items[i].itemId].name

\* totals were computed for two lines of the same item whose price is not a
\* whole number of cents: the subtotal differs from the sum of the rounded
\* line subtotals
C7_Witness ==
    /\ tcall.done
    /\ Len(tcall.items) = 2
    /\ AllExist(tcall.items, tcall.cat)
    /\ tcall.items[1].itemId = tcall.items[2].itemId
    /\ LET r == Val(tcall.result)
           subs == LineSubtotals(tcall.items, tcall.cat)
       IN  /\ r.ok
           /\ r.subtotal # Round2(subs[1], 1) + Round2(subs[2], 1)

\* the first line of a create-order body that names an absent item
FirstMissing(items, cat) ==
    LET missing == {i \in DOMAIN items : items[i].itemId \notin DOMAIN cat}
    IN  items[CHOOSE i \in missing : \A j \in missing : i <= j].itemId

\* C8: a create-order request with a line (first, middle or last) that names
\* an item absent from the catalog fails as a whole: the response is an error
\* naming the missing id and carries no totals, no order is inserted, nothing
\* is broadcast and no webhook delivery is started, also when the lines
\* before the missing one are valid.
C8_MissingItemAbortsOrder ==
    [][(/\ Handles("createOrder")
        /\ Has(lastRequest'.req.items)
        /\ ~AllExist(Val(lastRequest'.req.items), catalog))
       => /\ lastRequest'.status = 400
          /\ lastRequest'.error =
                {<<"not found", FirstMissing(Val(lastRequest'.req.items), catalog)>>}
          /\ lastRequest'.body = {}
          /\ UNCHANGED <<orders, eventLog, deliveries, catalog, promotions,
                         menuVersion, nextId>>]_vars

\* an order whose middle line names an absent item, after a valid first
\* line, has been refused with a webhook endpoint configured
C8_Witness ==
    /\ lastRequest.op = "createOrder"
    /\ lastRequest.status = 400
    /\ webhookUrl
    /\ Has(lastRequest.req.items)
    /\ Len(Val(lastRequest.req.items)) = 3
    /\ Val(lastRequest.req.items)[1].itemId \in DOMAIN catalog
    /\ Val(lastRequest.req.items)[2].itemId \notin DOMAIN catalog
    /\ lastRequest.error = {<<"not found", Val(lastRequest.req.items)[2].itemId>>}

-----------------------------------------------------------------------------
(* Stored orders and menuVersion *)

\* the order added by this step holds, line by line, the values the catalog
\* and the request had when the step began
CapturedAtCreation(order, items, cat) ==
    /\ Len(order.items) = Len(items)
    /\ \A i \in DOMAIN items :
          /\ order.items[i].itemId = items[i].itemId
          /\ order.items[i].name = cat[items[i].itemId].name
          /\ order.items[i].price = cat[items[i].itemId].price
          /\ order.items[i].quantity = items[i].qty
          /\ order.items[i].subtotal = cat[items[i].itemId].price * items[i].qty
    /\ order.status = "completed"

\* C9: a stored order is never removed and never changes.  The order a
\* create-order step adds holds the item id, name, unit price, quantity and
\* line subtotal taken from the catalog and the request at that moment and
\* the status 'completed'; every later step (price update, item update, item
\* delete, item create, publish, promotion create, further orders, webhook
\* steps) leaves every stored order, with all its fields, as it is.
C9_StoredOrdersImmutable ==
    [][/\ \A id \in DOMAIN orders :
             id \in DOMAIN orders' /\ orders'[id] = orders[id]
       /\ \A id \in DOMAIN orders' \ DOMAIN orders :
             /\ Handles("createOrder")
             /\ CapturedAtCreation(orders'[id], Val(lastRequest'.req.items), catalog)]_vars

\* a stored order has a line whose item has since been deleted or repriced
C9_Witness ==
    \E id \in DOMAIN orders :
        /\ orders[id].status = "completed"
        /\ \E i \in DOMAIN orders[id].items :
              LET l == orders[id].items[i]
              IN  \/ l.itemId \notin DOMAIN catalog
                  \/ catalog[l.itemId].price # l.price

\* the broadcast messages that carry a menuVersion
Carriers(log) == {i \in DOMAIN log : Has(CarriedVersion(log[i]))}

\* C10: menuVersion starts at 1 and each step leaves it or adds 1; a step
\* that adds 1 is a request handler's step and broadcasts exactly one
\* message, which carries the new value; a step that leaves it broadcasts no
\* message carrying a version; and no value is carried by two broadcast
\* messages.
C10_MenuVersionSteps ==
    /\ menuVersion = 1
    /\ [][/\ menuVersion' \in {menuVersion, menuVersion + 1}
          /\ menuVersion' = menuVersion + 1 =>
                /\ lastRequest'.seq # lastRequest.seq
                /\ Len(eventLog') = Len(eventLog) + 1
                /\ eventLog' = Append(eventLog, eventLog'[Len(eventLog')])
                /\ CarriedVersion(eventLog'[Len(eventLog')]) = {menuVersion'}
          /\ menuVersion' = menuVersion =>
                Carriers(eventLog') = Carriers(eventLog)]_vars
    /\ [](\A i, j \in Carriers(eventLog) :
             CarriedVersion(eventLog[i]) = CarriedVersion(eventLog[j]) => i = j)

\* menuVersion has reached 3 through a published price update, and the
\* versions 2 and 3 have each been broadcast
C10_Witness ==
    /\ menuVersion = 3
    /\ \E i, j \in DOMAIN eventLog :
          /\ CarriedVersion(eventLog[i]) = {2}
          /\ eventLog[j].event = "price.updated"
          /\ CarriedVersion(eventLog[j]) = {3}

-----------------------------------------------------------------------------
(* WebSocket clients: who receives a broadcast *)

\* the step broadcasts: one message is added to the record of broadcasts
BroadcastStep == Len(eventLog') = Len(eventLog) + 1

\* the message a broadcasting step broadcasts
Broadcasted == eventLog'[Len(eventLog')]

\* the socket is connected and neither its 'close' nor its 'error' handler
\* has run
Connected(c) == sockets[c] \in {"open", "broken", "closing"}

\* C11: a client is registered exactly from its connection until its
\* 'close' or 'error' handler runs.  A client that is registered and open
\* when a message is broadcast receives that message; a client that is not
\* registered (never connected, closed or errored before the broadcast)
\* receives nothing; and a 'close' handler that runs for a client the
\* 'error' handler has already unregistered leaves the set of registered
\* clients as it is.
C11_BroadcastReachesRegistered ==
    /\ [](\A c \in Clients : Registered(wsClients, c) <=> Connected(c))
    /\ [][/\ BroadcastStep =>
               \A c \in Clients :
                  /\ (Registered(wsClients, c) /\ sockets[c] = "open")
                        => inbox'[c] = Append(inbox[c], Broadcasted)
                  /\ ~Registered(wsClients, c) => inbox'[c] = inbox[c]
          /\ \A c \in Clients :
                (sockets[c] = "errored" /\ sockets'[c] = "done")
                   => /\ ~Registered(wsClients, c)
                      /\ wsClients' = wsClients
                      /\ UNCHANGED <<serverVars, deliveries, inbox>>]_vars

\* c2 failed, was unregistered by its 'error' handler and then again by its
\* 'close' handler; c1, still registered and open, has since received a
\* broadcast that c2 has not
C11_Witness ==
    /\ sockets["c1"] = "open"
    /\ sockets["c2"] = "done"
    /\ lost["c2"] > 0
    /\ wsClients = <<"c1">>
    /\ Len(inbox["c2"]) > 0
    /\ Len(eventLog) > 0
    /\ inbox["c1"][Len(inbox["c1"])] = eventLog[Len(eventLog)]
    /\ inbox["c2"][Len(inbox["c2"])] # eventLog[Len(eventLog)]

\* C12: the step that connects a client registers it and sends it one
\* message, the event 'connected' carrying the menuVersion of that moment;
\* a client that has not connected has received nothing; and the first
\* message a client has received is that 'connected' message, every later
\* one being a broadcast.
C12_ConnectedIsFirst ==
    /\ [][\A c \in Clients :
            (sockets[c] = "new" /\ sockets'[c] # "new")
               => /\ ~Registered(wsClients, c)
                  /\ Registered(wsClients', c)
                  /\ Len(inbox'[c]) = 1
                  /\ inbox'[c][1].event = "connected"
                  /\ inbox'[c][1].data.menuVersion = {menuVersion}
                  /\ menuVersion' = menuVersion
                  /\ eventLog' = eventLog]_vars
    /\ [](\A c \in Clients :
             /\ sockets[c] = "new" => inbox[c] = <<>>
             /\ \A i \in DOMAIN inbox[c] :
                   inbox[c][i].event = "connected" <=> i = 1)

\* c1 connected after the menu had been published once: it was greeted with
\* version 2 and has received a broadcast after the greeting
C12_Witness ==
    /\ Len(inbox["c1"]) >= 2
    /\ inbox["c1"][1].event = "connected"
    /\ inbox["c1"][1].data.menuVersion = {2}
    /\ inbox["c1"][2] = eventLog[Len(eventLog)]

\* the messages broadcast since client c registered
BroadcastSince(c) == SubSeq(eventLog, joined[c] + 1, Len(eventLog))

\* the broadcasts client c has received: its messages after the greeting
Received(c) == Tail(inbox[c])

\* C13: what a connected client has received after its greeting is a run of
\* consecutive broadcast messages that starts with the first one broadcast
\* after it registered, each once and in broadcast order; for a client that
\* is still registered and open the run is complete, up to the last message
\* broadcast; and two clients that registered at the same point and have
\* received as many messages have received the same sequence.
C13_EveryEventOnceInOrder ==
    /\ \A c \in Clients :
          sockets[c] # "new" =>
             /\ IsPrefix(Received(c), BroadcastSince(c))
             /\ (Registered(wsClients, c) /\ sockets[c] = "open")
                   => Received(c) = BroadcastSince(c)
    /\ \A c, d \in Clients :
          (/\ sockets[c] # "new" /\ sockets[d] # "new"
           /\ joined[c] = joined[d]
           /\ Len(inbox[c]) = Len(inbox[d]))
             => Received(c) = Received(d)

\* c1 registered before the first broadcast and c2 between the first and the
\* second: both are open, c1 has received both messages and c2 the second
C13_Witness ==
    /\ sockets["c1"] = "open" /\ sockets["c2"] = "open"
    /\ joined["c1"] = 0 /\ joined["c2"] = 1
    /\ Len(eventLog) = 2
    /\ Received("c1") = eventLog
    /\ Received("c2") = <<eventLog[2]>>

-----------------------------------------------------------------------------
(* Signature verification *)

\* C14: verifyHmacSignature returns true for the signature that
\* generateHmacSignature computes for the same payload and secret, and
\* returns false, without throwing, for every other signature, whether it
\* differs in content (another payload, another secret, a changed
\* character) or in length.
C14_VerifyNeverThrows ==
    hcall.done =>
       hcall.result =
          {IF hcall.signature = generateHmacSignature(hcall.payload, hcall.secret)
           THEN "true" ELSE "false"}

-----------------------------------------------------------------------------
(* Rounding of the amounts of an order *)

\* the amounts computed for an order have two decimals: each line's
\* subtotal and the order's subtotal, tax and total
OrderRounded(order) ==
    /\ IsRounded2(order.subtotal)
    /\ IsRounded2(order.tax)
    /\ IsRounded2(order.total)
    /\ \A i \in DOMAIN order.items : IsRounded2(order.items[i].subtotal)

\* the amounts of a webhook payload have two decimals
PayloadRounded(payload) ==
    /\ IsRounded2(payload.subtotal)
    /\ IsRounded2(payload.tax)
    /\ IsRounded2(payload.total)

\* C15: every amount computed for an order is rounded to two decimals where
\* the order leaves the server: in the order returned to the caller, in the
\* order broadcast as order.created, and in the webhook payload; this
\* includes the subtotal of each line (price times quantity), also for an
\* item whose price is not a whole number of cents.
C15_MonetaryFieldsRounded ==
    /\ (lastRequest.op = "createOrder" /\ lastRequest.status = 201)
          => OrderRounded(Val(lastRequest.body))
    /\ \A i \in DOMAIN eventLog :
          eventLog[i].event = "order.created" => OrderRounded(eventLog[i].data)
    /\ \A k \in DOMAIN deliveries : PayloadRounded(deliveries[k].body[2])

-----------------------------------------------------------------------------
(* The order of the steps of a mutating request *)

\* the step handles a request and answers it with a 2xx status
Succeeds ==
    /\ lastRequest'.seq # lastRequest.seq
    /\ lastRequest'.status \in {200, 201}

\* the store after the step holds the mutation the answered request asked for
StoreHoldsMutation ==
    LET op == lastRequest'.op
        req == lastRequest'.req
        body == lastRequest'.body
    IN  CASE op = "createItem" ->
               \E id \in DOMAIN catalog' \ DOMAIN catalog : body = {catalog'[id]}
          [] op = "updateItem" ->
               req.id \in DOMAIN catalog' /\ body = {catalog'[req.id]}
          [] op = "deleteItem" ->
               req.id \in DOMAIN catalog /\ req.id \notin DOMAIN catalog'
          [] op = "updatePrice" ->
               /\ req.itemId \in DOMAIN catalog'
               /\ catalog'[req.itemId].price = Val(req.body.price)
               /\ Val(body).item = catalog'[req.itemId]
               /\ Val(body).menuVersion = menuVersion'
          [] op = "createPromotion" ->
               \E id \in DOMAIN promotions' \ DOMAIN promotions :
                  body = {promotions'[id]}
          [] op = "publishMenu" ->
               /\ menuVersion' = menuVersion + 1
               /\ Val(body).menuVersion = menuVersion'
          [] op = "createOrder" ->
               \E id \in DOMAIN orders' \ DOMAIN orders : body = {orders'[id]}
          [] OTHER -> FALSE

\* message m is the event of the answered request, built from the store
\* after the mutation
EventOfMutation(m) ==
    LET op == lastRequest'.op
        req == lastRequest'.req
        body == lastRequest'.body
    IN  CASE op \in {"createItem", "updateItem"} ->
               /\ m.event = "menu.published"
               /\ m.data.item = body
               /\ m.data.menuVersion = {menuVersion'}
          [] op = "deleteItem" ->
               /\ m.event = "menu.published"
               /\ m.data.deletedItemId = {req.id}
               /\ m.data.menuVersion = {menuVersion'}
          [] op = "updatePrice" ->
               /\ m.event = "price.updated"
               /\ m.data.itemId = req.itemId
               /\ m.data.newPrice = catalog'[req.itemId].price
          [] op = "createPromotion" ->
               m.event = "promotion.created" /\ body = {m.data}
          [] op = "publishMenu" ->
               m.event = "menu.published" /\ m.data.menuVersion = {menuVersion'}
          [] op = "createOrder" ->
               m.event = "order.created" /\ body = {m.data}
          [] OTHER -> FALSE

\* C16: a request answered with a 2xx status has, in the step that answers
\* it, put its mutation in the store and broadcast exactly one event, built
\* from the store after the mutation and received by every client registered
\* and open at that moment.  A webhook delivery starts only in the step of a
\* create-order request answered 201, for the order that step has stored and
\* broadcast, with the payload built from that order; so every delivery is
\* for a stored order that has been broadcast.
C16_MutationBroadcastResponse ==
    /\ [][Succeeds =>
            /\ StoreHoldsMutation
            /\ BroadcastStep
            /\ eventLog' = Append(eventLog, Broadcasted)
            /\ EventOfMutation(Broadcasted)
            /\ \A c \in Clients :
                  (Registered(wsClients, c) /\ sockets[c] = "open")
                     => inbox'[c] = Append(inbox[c], Broadcasted)]_vars
    /\ [][\A k \in DOMAIN deliveries' \ DOMAIN deliveries :
            /\ Succeeds
            /\ lastRequest'.op = "createOrder"
            /\ k \in DOMAIN orders' \ DOMAIN orders
            /\ BroadcastStep
            /\ Broadcasted.event = "order.created"
            /\ Broadcasted.data = orders'[k]
            /\ deliveries'[k].body =
                  Stringify(WebhookPayload(orders'[k], Broadcasted.ts))
            /\ deliveries'[k].attempts = 1]_vars
    /\ [](\A k \in DOMAIN deliveries :
             /\ k \in DOMAIN orders
             /\ \E i \in DOMAIN eventLog :
                   eventLog[i].event = "order.created" /\ eventLog[i].data = orders[k])

\* an order has been answered 201 with both clients registered and open:
\* the order is stored, both have received its order.created event, and its
\* webhook delivery has started
C16_Witness ==
    /\ lastRequest.op = "createOrder"
    /\ lastRequest.status = 201
    /\ Val(lastRequest.body).id \in DOMAIN orders
    /\ Val(lastRequest.body).id \in DOMAIN deliveries
    /\ \A c \in Clients :
          /\ sockets[c] = "open"
          /\ inbox[c][Len(inbox[c])].event = "order.created"
          /\ inbox[c][Len(inbox[c])].data = orders[Val(lastRequest.body).id]

-----------------------------------------------------------------------------
(* Requests that are refused *)

\* the request the step handles is one of the refused kinds: an item create
\* with a required field missing; an item update, an item delete or a price
\* update for an id not in the catalog; a price update without a price; a
\* promotion with a required field missing or for an id not in the catalog;
\* an order with no items
RefusedInput ==
    LET op == lastRequest'.op
        req == lastRequest'.req
    IN  CASE op = "createItem" ->
               \/ ~Has(req.name) \/ ~Has(req.category) \/ ~Has(req.price)
               \/ ~Has(req.minPrice) \/ ~Has(req.maxPrice)
          [] op \in {"updateItem", "deleteItem"} -> req.id \notin DOMAIN catalog
          [] op = "updatePrice" ->
               ~Has(req.body.price) \/ req.itemId \notin DOMAIN catalog
          [] op = "createPromotion" ->
               \/ ~Has(req.itemId) \/ ~Has(req.kind) \/ ~Has(req.value)
               \/ Val(req.itemId) \notin DOMAIN catalog
          [] op = "createOrder" ->
               ~Has(req.items) \/ Len(Val(req.items)) = 0
          [] OTHER -> FALSE

\* the step handles a request and answers it with an error status
Refuses ==
    /\ lastRequest'.seq # lastRequest.seq
    /\ lastRequest'.status \in {400, 404}

\* C17: a request of a refused kind is answered 400 or 404; a step that
\* answers a request 400 or 404 leaves the catalog, the orders, the
\* promotions, menuVersion and the webhook deliveries as they were and
\* broadcasts nothing; and a create-order request answered with anything
\* but 201 adds no order to the store.
C17_RefusedRequestChangesNothing ==
    [][/\ (lastRequest'.seq # lastRequest.seq /\ RefusedInput) => Refuses
       /\ Refuses =>
            UNCHANGED <<catalog, orders, promotions, menuVersion, nextId,
                        eventLog, deliveries, inbox, lost, wsClients>>
       /\ (Handles("createOrder") /\ lastRequest'.status # 201)
             => orders' = orders]_vars

\* after one mutation that was broadcast, a promotion for an id that is not
\* in the catalog has been answered 404, and no promotion is stored
C17_Witness ==
    /\ lastRequest.op = "createPromotion"
    /\ lastRequest.status = 404
    /\ lastRequest.seq = 2
    /\ Len(eventLog) = 1
    /\ promotions = <<>>

-----------------------------------------------------------------------------
(* What the attempts of a delivery transmit *)

\* C18: every attempt of a delivery has transmitted the same body and the
\* same signature: the body is the serialization of the payload built from
\* the order when it was created, the signature is the keyed digest of
\* exactly that body under the webhook secret, and one transmission has been
\* made per attempt, whatever requests were handled between the attempts.
C18_AttemptsSendSameSignedBody ==
    \A k \in DOMAIN deliveries :
       LET d == deliveries[k]
       IN  /\ Len(d.transmitted) = d.attempts
           /\ k \in DOMAIN orders
           /\ \A i \in DOMAIN d.transmitted :
                 /\ d.transmitted[i].body =
                       Stringify(WebhookPayload(orders[k], orders[k].createdAt))
                 /\ d.transmitted[i].signature =
                       generateHmacSignature(d.transmitted[i].body, WEBHOOK_SECRET)

\* the delivery of an order for the IPA Pint has made two attempts, and the
\* price of the IPA Pint was updated after the order was created
C18_Witness ==
    \E k \in DOMAIN deliveries :
       /\ deliveries[k].attempts >= 2
       /\ lastRequest.op = "updatePrice"
       /\ lastRequest.status = 200
       /\ orders[k].items[1].itemId = 1
       /\ orders[k].items[1].price # catalog[1].price

-----------------------------------------------------------------------------
(* Termination of a delivery *)

\* the delivery has ended with a 2xx response or with its retries exhausted
Ended(d) == d.state \in {"success", "failed"}

\* C19: when every fetch settles and every sleep ends, a delivery that has
\* started eventually ends, in success or in exhausted failure, whatever the
\* endpoint answers; a delivery never makes more than maxRetries + 1
\* attempts, 4 with the default; and a delivery that has ended stays as it
\* is: it does not leave its final state and makes no further attempt.
C19_DeliveryTerminates ==
    /\ \A k \in DeliveryIds :
          [](k \in DOMAIN deliveries =>
                <>(k \in DOMAIN deliveries /\ Ended(deliveries[k])))
    /\ [](\A k \in DOMAIN deliveries :
             /\ deliveries[k].maxRetries = DefaultMaxRetries
             /\ deliveries[k].attempts <= deliveries[k].maxRetries + 1
             /\ deliveries[k].attempts <= 4
             /\ deliveries[k].state \in {"sending", "sleeping", "success", "failed"})
    /\ [][\A k \in DOMAIN deliveries :
            Ended(deliveries[k]) => deliveries'[k] = deliveries[k]]_vars

\* two deliveries have ended: the first in exhausted failure after 4
\* attempts, the second in success at its third attempt
C19_Witness ==
    /\ DOMAIN deliveries = {6, 7}
    /\ deliveries[6].state = "failed" /\ deliveries[6].attempts = 4
    /\ deliveries[7].state = "success" /\ deliveries[7].attempts = 3

-----------------------------------------------------------------------------
(* A send that fails during a broadcast *)

\* C20: in a step that broadcasts, a send that fails (to a registered client
\* whose readyState is OPEN but whose connection has failed) is counted for
\* that client and changes nothing else: every registered client on a
\* working connection still receives the message; a registered client whose
\* readyState is not OPEN is skipped, receiving nothing and failing nothing;
\* the set of registered clients is as before; and the request that
\* broadcast is answered with its 2xx status, its mutation stored and its
\* event recorded, as without the failure.  No request is ever answered
\* with a status other than 200, 201, 400 or 404.
C20_SendFailureAbsorbed ==
    /\ [][BroadcastStep =>
            /\ \A c \in Clients :
                  /\ (Registered(wsClients, c) /\ sockets[c] = "broken")
                        => /\ lost'[c] = lost[c] + 1
                           /\ inbox'[c] = inbox[c]
                  /\ (Registered(wsClients, c) /\ sockets[c] = "open")
                        => /\ inbox'[c] = Append(inbox[c], Broadcasted)
                           /\ lost'[c] = lost[c]
                  /\ (Registered(wsClients, c) /\ sockets[c] = "closing")
                        => /\ inbox'[c] = inbox[c]
                           /\ lost'[c] = lost[c]
            /\ wsClients' = wsClients
            /\ sockets' = sockets
            /\ Succeeds
            /\ StoreHoldsMutation
            /\ EventOfMutation(Broadcasted)]_vars
    /\ [](lastRequest.status \in {0, 200, 201, 400, 404})

\* c1 registered first and its connection failed; c2 registered after it.
\* The one broadcast since, of a created order, was lost on c1 and received
\* by c2, and the order was answered 201 and stored
C20_Witness ==
    /\ wsClients = <<"c1", "c2">>
    /\ sockets["c1"] = "broken" /\ sockets["c2"] = "open"
    /\ joined["c1"] = 0 /\ joined["c2"] = 0
    /\ Len(eventLog) = 1
    /\ lost["c1"] = 1
    /\ Received("c1") = <<>>
    /\ Received("c2") = eventLog
    /\ lastRequest.op = "createOrder"
    /\ lastRequest.status = 201
    /\ Val(lastRequest.body).id \in DOMAIN orders

-----------------------------------------------------------------------------
(* The set of registered clients *)

\* C21: the registered clients are exactly the live ones: a client is
\* registered when it connects and is unregistered by its 'close' event, by
\* its 'error' event and by a send to it that fails; so a client to which a
\* send has failed is not registered any more, and no broadcast after the
\* failed one sends to it again.
C21_FailedSendUnregisters ==
    /\ \A c \in Clients :
          /\ Registered(wsClients, c) => Connected(c)
          /\ sockets[c] \in {"errored", "done"} => ~Registered(wsClients, c)
          /\ lost[c] > 0 => ~Registered(wsClients, c)
          /\ lost[c] <= 1

-----------------------------------------------------------------------------
(* The change of menuVersion by each operation *)

\* the publish flag of a price-update request is set
Publishes(req) == Has(req.body.publish) /\ Val(req.body.publish)

\* the amount by which the claim says the answered request changes
\* menuVersion
VersionIncrement ==
    LET op == lastRequest'.op
    IN  CASE op \in {"createItem", "updateItem", "deleteItem", "publishMenu"} -> 1
          [] op = "updatePrice" -> IF Publishes(lastRequest'.req) THEN 1 ELSE 0
          [] op \in {"createPromotion", "createOrder"} -> 0
          [] op \in {"getHealth", "getCatalogItems", "getOrders"} -> 0

\* C22: a request answered with a 2xx status changes menuVersion by a fixed
\* amount: an item create, an item update, an item delete and a menu publish
\* add exactly 1; a price update adds exactly 1 when its publish flag is set
\* and nothing otherwise, and its price.updated event then carries no
\* menuVersion; a promotion create, an order create and the reads (health,
\* catalog items, orders) add nothing.
C22_VersionIncrements ==
    [][Succeeds =>
         /\ menuVersion' = menuVersion + VersionIncrement
         /\ lastRequest'.op = "updatePrice" =>
               /\ Broadcasted.event = "price.updated"
               /\ Broadcasted.data.menuVersion =
                     IF Publishes(lastRequest'.req) THEN {menuVersion + 1} ELSE {}]_vars

\* a price update without the publish flag left menuVersion at 1 and its
\* event carries no version; a second one with the flag set has made it 2
C22_Witness ==
    /\ menuVersion = 2
    /\ Len(eventLog) = 2
    /\ eventLog[1].event = "price.updated" /\ eventLog[1].data.menuVersion = {}
    /\ eventLog[2].event = "price.updated" /\ eventLog[2].data.menuVersion = {2}

-----------------------------------------------------------------------------
(* Promotions *)

\* C23: a promotion create answered 201 adds exactly one promotion to the
\* promotion store, broadcasts it as promotion.created, and leaves the
\* catalog (items and prices), menuVersion, the orders and the deliveries as
\* they were; and an order created while promotions are stored has the
\* totals computed from the catalog prices alone, as with no promotion:
\* each line at the catalog price, subtotal, tax and total rounded from the
\* sums of price * qty and price * qty * taxRate.
C23_PromotionsInert ==
    [][/\ (Succeeds /\ lastRequest'.op = "createPromotion") =>
            /\ \E id \in DOMAIN promotions' \ DOMAIN promotions :
                  /\ DOMAIN promotions' = DOMAIN promotions \cup {id}
                  /\ lastRequest'.body = {promotions'[id]}
                  /\ Broadcasted.data = promotions'[id]
            /\ \A id \in DOMAIN promotions : promotions'[id] = promotions[id]
            /\ eventLog' = Append(eventLog, Broadcasted)
            /\ Broadcasted.event = "promotion.created"
            /\ UNCHANGED <<catalog, menuVersion, orders, deliveries>>
       /\ (Succeeds /\ lastRequest'.op = "createOrder") =>
            LET items == Val(lastRequest'.req.items)
                order == Val(lastRequest'.body)
                sub == SumOver(LineSubtotals(items, catalog), DOMAIN items)
                tx == SumOver(LineTaxes(items, catalog), DOMAIN items)
            IN  /\ order.subtotal = Round2(sub, 1)
                /\ order.tax = Round2(tx, RateDen)
                /\ order.total = Round2(sub * RateDen + tx, RateDen)
                /\ \A i \in DOMAIN items :
                      /\ order.items[i].price = catalog[items[i].itemId].price
                      /\ order.items[i].subtotal =
                            catalog[items[i].itemId].price * items[i].qty]_vars

\* a 50 percent promotion for the IPA Pint is stored, and the order created
\* after it for one IPA Pint has the full price of 7.00 as its subtotal
C23_Witness ==
    /\ \E p \in DOMAIN promotions :
          /\ promotions[p].itemId = 1
          /\ promotions[p].kind = "percent_off"
          /\ promotions[p].value = 50
    /\ lastRequest.op = "createOrder"
    /\ lastRequest.status = 201
    /\ Len(Val(lastRequest.body).items) = 1
    /\ Val(lastRequest.body).items[1].itemId = 1
    /\ Val(lastRequest.body).subtotal = 7000
    /\ menuVersion = 1

-----------------------------------------------------------------------------
(* The price band of the catalog items *)

InBand(item) == item.minPrice <= item.price /\ item.price <= item.maxPrice

\* C24: every item of the seed catalog has minPrice <= price <= maxPrice,
\* and a step after which an item is outside its band, the item being new or
\* having been inside before, is the step of an item create, of an item
\* update, or of a price update with overrideGuardrails set.  So with none
\* of these three, whatever price updates, orders, promotions, publishes and
\* deletes are handled, every item stays inside its band.
C24_BandKeptWithoutOverride ==
    /\ \A id \in DOMAIN catalog : InBand(catalog[id])
    /\ [][\A id \in DOMAIN catalog' :
            (/\ ~InBand(catalog'[id])
             /\ id \in DOMAIN catalog => InBand(catalog[id]))
               => \/ Handles("createItem")
                  \/ Handles("updateItem")
                  \/ /\ Handles("updatePrice")
                     /\ Overrides(lastRequest'.req.body.overrideGuardrails)]_vars

\* a price update of the IPA Pint without override was accepted inside the
\* band; then one with override has put its price above its maximum
C24_Witness ==
    /\ Len(eventLog) = 2
    /\ eventLog[1].event = "price.updated"
    /\ eventLog[1].data.newPrice = 9994
    /\ lastRequest.op = "updatePrice"
    /\ lastRequest.status = 200
    /\ Overrides(lastRequest.req.body.overrideGuardrails)
    /\ catalog[1].price > catalog[1].maxPrice

-----------------------------------------------------------------------------
(* The versions a client receives *)

\* the menuVersion message m carries to a client, as an optional value: the
\* one of a 'connected' greeting, of a menu.published event, or of a
\* price.updated event that has one
VersionOf(m) ==
    IF m.event = "connected" THEN m.data.menuVersion ELSE CarriedVersion(m)

\* the positions of the messages of a client that carry a version
Versioned(box) == {i \in DOMAIN box : Has(VersionOf(box[i]))}

\* C25: the menuVersion values a client has received, from its greeting on,
\* increase by exactly one from each to the next: of two messages that carry
\* a version with no such message between them, the later carries the
\* earlier's value plus 1.
C25_ReceivedVersionsConsecutive ==
    \A c \in Clients :
       \A i, j \in Versioned(inbox[c]) :
          (i < j /\ \A k \in Versioned(inbox[c]) : ~(i < k /\ k < j))
             => Val(VersionOf(inbox[c][j])) = Val(VersionOf(inbox[c][i])) + 1

\* c2 was greeted with 1 and received an event that carries 2; c1 connected
\* after that event and was greeted with 2; both then received the same
\* price.updated event, which carries 3
C25_Witness ==
    /\ Len(inbox["c1"]) = 2 /\ Len(inbox["c2"]) = 3
    /\ VersionOf(inbox["c1"][1]) = {2}
    /\ VersionOf(inbox["c2"][1]) = {1}
    /\ VersionOf(inbox["c2"][2]) = {2}
    /\ inbox["c2"][3].event = "price.updated"
    /\ VersionOf(inbox["c2"][3]) = {3}
    /\ inbox["c1"][2] = inbox["c2"][3]

=============================================================================
